---- MODULE Spec2Model ----
(***************************************************************************)
(* Model of the wallet transfer form (TransferForm) and of the token list  *)
(* view model (TokenList).                                                 *)
(*                                                                         *)
(* Amounts are decimal numbers in the program; here an amount is an        *)
(* integer count of 1/FracDenom units, so 1 token is FracDenom and the     *)
(* smallest positive amount is 1 (a fraction strictly between 0 and 1).    *)
(* The value NaN is what an empty amount field yields (valueAsNumber).     *)
(***************************************************************************)
EXTENDS Integers, Sequences, FiniteSets, TLC

VARIABLES
    balances,          \* useTokenBalance().balances: the store's snapshot
    isLoading,         \* useTokenBalance().isLoading
    balFetch,          \* balance fetch of the store: "idle" | "inflight"
    histFetch,         \* history fetch of the store: "idle" | "inflight"
    isSubmitting,      \* formState.isSubmitting
    attempt,           \* the latest handleSubmit call: values, errors, outcome
    subs,              \* one record per call of transferTokens
    nSubs,             \* number of calls of transferTokens so far
    hookAwaitsHandler, \* whether transferTokens' promise waits for onSuccess
    compact,           \* TokenList prop
    fullList,          \* TokenList prop
    rendered           \* latest TokenList render: [visible, truncated] or NoRender

formVars == <<balances, isLoading, balFetch, histFetch, isSubmitting, attempt,
              subs, nSubs, hookAwaitsHandler>>
listVars == <<compact, fullList, rendered>>
vars == <<balances, isLoading, balFetch, histFetch, isSubmitting, attempt,
          subs, nSubs, hookAwaitsHandler, compact, fullList, rendered>>

----------------------------------------------------------------------------
(* Bounds *)

MaxSubmits == 2
MaxBalances == 4
FracDenom == 2

(* Program constants *)

MinAmount == 1
MaxAmount == 100000
CompactLimit == 3
MoreThreshold == 1

----------------------------------------------------------------------------
(* Values *)

\* A JavaScript number as the form sees it: NaN, or n units of 1/FracDenom.
NaN == [nan |-> TRUE, n |-> 0]
Num(k) == [nan |-> FALSE, n |-> k]
NoError == "none"
NoRender == [visible |-> <<>>, truncated |-> FALSE, done |-> FALSE]

Bal(assetId, amt) == [asset |-> assetId, amount |-> amt]

\* Snapshots the ledger may return to the form's store: balance 500 first.
Snapshots ==
    { <<>>,
      << Bal("CHR", 500 * FracDenom) >>,
      << Bal("CHR", 500 * FracDenom), Bal("USD", 7 * FracDenom) >> }

\* Recipient field values: the empty string and a one-character address.
Recipients == { <<>>, <<"r">> }

\* Amount field values: NaN, -1, 0, 1/FracDenom, 1, 100, 500 (what the Max
\* button sets: currentBalance), 600, 100000, 100000 + 1/FracDenom.
Amounts ==
    { NaN } \cup
    { Num(k) : k \in { -FracDenom, 0, 1, FracDenom, 100 * FracDenom,
                       500 * FracDenom, 600 * FracDenom,
                       MaxAmount * FracDenom, MaxAmount * FracDenom + 1 } }

RECURSIVE Count(_, _)
Count(seq, e) ==
    IF seq = <<>> THEN 0
    ELSE (IF Head(seq) = e THEN 1 ELSE 0) + Count(Tail(seq), e)

\* Index of the first occurrence of e in seq, 0 when absent.
Pos(seq, e) ==
    IF \E i \in 1..Len(seq) : seq[i] = e
    THEN CHOOSE i \in 1..Len(seq) :
            seq[i] = e /\ \A j \in 1..(i - 1) : seq[j] # e
    ELSE 0

Min(a, b) == IF a < b THEN a ELSE b

----------------------------------------------------------------------------
(* transferTokenSchema *)

\* A mutant of RecipientCheck: the recipient is optional.
RecipientCheck_Optional(r) == NoError

RecipientCheck(r) ==
    IF Len(r) < 1 THEN "Recipient is required" ELSE NoError

AmountCheck(a) ==
    IF a.nan THEN "Amount is required"
    ELSE IF a.n < MinAmount * FracDenom THEN "Amount should be greater than 0"
    ELSE IF a.n > MaxAmount * FracDenom
         THEN "Max possible to transfer 100 000 tokens"
    ELSE NoError

transferTokenSchema(r, a) ==
    [recipient |-> RecipientCheck(r), amount |-> AmountCheck(a)]

NoErrors == [recipient |-> NoError, amount |-> NoError]

----------------------------------------------------------------------------
(* TransferForm *)

\* The form is rendered only past the loading guard.
FormRendered == ~isLoading /\ Len(balances) > 0

\* A mutant of SubmitEnabled: the submit button is never disabled.
SubmitEnabled_NeverDisabled == FormRendered

\* The submit button exists once the form is rendered and is disabled while
\* a submission is pending.
SubmitEnabled == FormRendered /\ ~isSubmitting

\* Number(balances[0].amount.toString())
currentBalance == Num(balances[1].amount)

NoAttempt ==
    [made |-> FALSE, recipient |-> <<>>, amount |-> NaN, balance |-> NaN,
     errors |-> NoErrors, invoked |-> FALSE]

NoSub ==
    [pc |-> "idle", events |-> <<>>, balP |-> "none", histP |-> "none"]

Subs == 1..MaxSubmits

\* refresh() of a store: start a fetch, or join the one in flight.
StartFetch(f) == IF f = "idle" THEN "inflight" ELSE f

\* A mutant of onSuccess: the history refresh is forgotten.
onSuccess_NoHistoryRefresh(sub) ==
    [sub EXCEPT
        !.events = @ \o <<"showSuccess", "refreshBalance">>,
        !.balP = "pending",
        !.histP = "fulfilled",
        !.pc = "settling"]

\* A mutant of onSuccess: the modal is shown only after the refreshes.
onSuccess_ModalAfterRefresh(sub) ==
    [sub EXCEPT
        !.events = @ \o <<"refreshBalance", "refreshHistory">>,
        !.balP = "pending",
        !.histP = "pending",
        !.pc = "settling"]

\* onSuccess up to its await: show the modal, then call both refreshes.
onSuccess(sub) ==
    [sub EXCEPT
        !.events = @ \o <<"showSuccess", "refreshBalance", "refreshHistory">>,
        !.balP = "pending",
        !.histP = "pending",
        !.pc = "settling"]

\* A mutant of onError: the failure path refreshes the stores as well.
onError_Refreshes(sub) ==
    [sub EXCEPT
        !.events = @ \o <<"showError", "refreshBalance", "refreshHistory">>,
        !.balP = "pending",
        !.histP = "pending",
        !.pc = "failed"]

\* onError: showTransferedErrorModal.
onError(sub) ==
    [sub EXCEPT !.events = Append(@, "showError"), !.pc = "failed"]

\* A mutant of onSuccessResume: a failed refresh is reported as a failed
\* transfer.
onSuccessResume_ReportsFailure(sub) ==
    IF sub.pc # "settling" THEN sub
    ELSE IF sub.balP = "rejected" \/ sub.histP = "rejected"
         THEN [sub EXCEPT !.events = Append(@, "showError"),
                          !.pc = "rejected"]
    ELSE IF sub.balP = "fulfilled" /\ sub.histP = "fulfilled"
         THEN [sub EXCEPT !.events = Append(@, "onBack"), !.pc = "succeeded"]
    ELSE sub

\* A mutant of onSuccessResume: Promise.allSettled in place of Promise.all.
onSuccessResume_AllSettled(sub) ==
    IF sub.pc # "settling" THEN sub
    ELSE IF sub.balP \in {"fulfilled", "rejected"}
            /\ sub.histP \in {"fulfilled", "rejected"}
         THEN [sub EXCEPT !.events = Append(@, "onBack"), !.pc = "succeeded"]
    ELSE sub

\* onSuccess after its await: Promise.all rejects as soon as one refresh
\* rejects, and fulfils when both have fulfilled; then onBack().
onSuccessResume(sub) ==
    IF sub.pc # "settling" THEN sub
    ELSE IF sub.balP = "rejected" \/ sub.histP = "rejected"
         THEN [sub EXCEPT !.pc = "rejected"]
    ELSE IF sub.balP = "fulfilled" /\ sub.histP = "fulfilled"
         THEN [sub EXCEPT !.events = Append(@, "onBack"), !.pc = "succeeded"]
    ELSE sub

SettleBal(sub, ok) ==
    IF sub.balP = "pending"
    THEN [sub EXCEPT !.balP = IF ok THEN "fulfilled" ELSE "rejected"]
    ELSE sub

SettleHist(sub, ok) ==
    IF sub.histP = "pending"
    THEN [sub EXCEPT !.histP = IF ok THEN "fulfilled" ELSE "rejected"]
    ELSE sub

\* isSubmitting once the awaited handlers have moved on: handleSubmit clears
\* it when the promise of transferTokens settles.
SubmittingAfter(newSubs) ==
    \E s \in Subs :
        \/ newSubs[s].pc = "submitting"
        \/ hookAwaitsHandler /\ newSubs[s].pc = "settling"

FormInit ==
    /\ balances = <<>>
    /\ isLoading = TRUE
    /\ balFetch = "inflight"
    /\ histFetch = "idle"
    /\ isSubmitting = FALSE
    /\ attempt = NoAttempt
    /\ subs = [s \in Subs |-> NoSub]
    /\ nSubs = 0

\* handleSubmit(values => transferTokens(values.recipient, values.amount)),
\* reachable through the submit button, which is disabled while submitting.
\* The Max button makes currentBalance one of the amounts.
HandleSubmit(r, a) ==
    /\ SubmitEnabled
    /\ LET errs == transferTokenSchema(r, a)
           ok == errs = NoErrors
       IN /\ ok => nSubs < MaxSubmits
          /\ attempt' = [made |-> TRUE, recipient |-> r, amount |-> a,
                         balance |-> currentBalance, errors |-> errs,
                         invoked |-> ok]
          /\ IF ok
             THEN /\ nSubs' = nSubs + 1
                  /\ subs' = [subs EXCEPT ![nSubs + 1] =
                                [NoSub EXCEPT !.pc = "submitting",
                                              !.events = <<"submit">>]]
                  /\ isSubmitting' = TRUE
             ELSE UNCHANGED <<nSubs, subs, isSubmitting>>
    /\ UNCHANGED <<balances, isLoading, balFetch, histFetch,
                   hookAwaitsHandler, listVars>>

\* The submitter call of submission s succeeds: the hook calls onSuccess.
SubmitterSucceeds(s) ==
    /\ subs[s].pc = "submitting"
    /\ LET newSubs == [subs EXCEPT ![s] = onSuccess(@)]
       IN /\ subs' = newSubs
          /\ isSubmitting' = SubmittingAfter(newSubs)
    /\ balFetch' = StartFetch(balFetch)
    /\ isLoading' = TRUE
    /\ histFetch' = StartFetch(histFetch)
    /\ UNCHANGED <<balances, attempt, nSubs, hookAwaitsHandler, listVars>>

\* The submitter call of submission s fails: the hook calls onError.
SubmitterFails(s) ==
    /\ subs[s].pc = "submitting"
    /\ LET newSubs == [subs EXCEPT ![s] = onError(@)]
       IN /\ subs' = newSubs
          /\ isSubmitting' = SubmittingAfter(newSubs)
    /\ UNCHANGED <<balances, isLoading, balFetch, histFetch, attempt, nSubs,
                   hookAwaitsHandler, listVars>>

\* The balance fetch completes; every refreshBalance() promise joined to it
\* settles and the handlers awaiting it resume.
BalanceFetchDone(ok, snap) ==
    /\ balFetch = "inflight"
    /\ balFetch' = "idle"
    /\ isLoading' = FALSE
    /\ balances' = IF ok THEN snap ELSE balances
    /\ LET newSubs == [s \in Subs |-> onSuccessResume(SettleBal(subs[s], ok))]
       IN /\ subs' = newSubs
          /\ isSubmitting' = SubmittingAfter(newSubs)
    /\ UNCHANGED <<histFetch, attempt, nSubs, hookAwaitsHandler, listVars>>

\* The history fetch completes.
HistoryFetchDone(ok) ==
    /\ histFetch = "inflight"
    /\ histFetch' = "idle"
    /\ LET newSubs == [s \in Subs |-> onSuccessResume(SettleHist(subs[s], ok))]
       IN /\ subs' = newSubs
          /\ isSubmitting' = SubmittingAfter(newSubs)
    /\ UNCHANGED <<balances, isLoading, balFetch, attempt, nSubs,
                   hookAwaitsHandler, listVars>>

\* A refresh of the balance store asked for by another part of the app.
RefreshBalance ==
    /\ balFetch = "idle"
    /\ balFetch' = StartFetch(balFetch)
    /\ isLoading' = TRUE
    /\ UNCHANGED <<balances, histFetch, isSubmitting, attempt, subs, nSubs,
                   hookAwaitsHandler, listVars>>

Init ==
    /\ FormInit
    /\ hookAwaitsHandler \in BOOLEAN
    /\ compact = FALSE
    /\ fullList = FALSE
    /\ rendered = NoRender

Next ==
    \/ \E r \in Recipients, a \in Amounts : HandleSubmit(r, a)
    \/ \E s \in Subs : SubmitterSucceeds(s)
    \/ \E s \in Subs : SubmitterFails(s)
    \/ \E ok \in BOOLEAN, snap \in Snapshots : BalanceFetchDone(ok, snap)
    \/ \E ok \in BOOLEAN : HistoryFetchDone(ok)
    \/ RefreshBalance

Spec == Init /\ [][Next]_vars

----------------------------------------------------------------------------
(* TokenList *)

\* A mutant of TokenList: "View all" is offered only when entries are hidden.
TokenList_MoreWhenHidden(b, c, f) ==
    LET showCompact == c /\ ~f
    IN [visible |-> IF showCompact
                    THEN SubSeq(b, 1, Min(CompactLimit, Len(b)))
                    ELSE b,
        truncated |-> showCompact /\ Len(b) > CompactLimit,
        done |-> TRUE]

\* showCompact, displayBalances (slice(0, 3)) and hasMore of one render.
TokenList(b, c, f) ==
    LET showCompact == c /\ ~f
    IN [visible |-> IF showCompact
                    THEN SubSeq(b, 1, Min(CompactLimit, Len(b)))
                    ELSE b,
        truncated |-> showCompact /\ Len(b) > MoreThreshold,
        done |-> TRUE]

ListEntries == { Bal("CHR", 500), Bal("USD", 7), Bal("EUR", 0) }

RECURSIVE SeqsUpTo(_)
SeqsUpTo(n) ==
    IF n = 0 THEN { <<>> }
    ELSE LET shorter == SeqsUpTo(n - 1)
         IN shorter \cup
            { Append(q, e) : q \in { x \in shorter : Len(x) = n - 1 },
                             e \in ListEntries }

BalanceSeqs == SeqsUpTo(MaxBalances)

\* The first render of a TokenList: default props, store still empty.
ListInit ==
    /\ balances = <<>>
    /\ compact = FALSE
    /\ fullList = FALSE
    /\ rendered = TokenList(balances, compact, fullList)
    /\ isLoading = FALSE
    /\ balFetch = "idle"
    /\ histFetch = "idle"
    /\ isSubmitting = FALSE
    /\ attempt = NoAttempt
    /\ subs = [s \in Subs |-> NoSub]
    /\ nSubs = 0
    /\ hookAwaitsHandler = FALSE

\* The parent re-renders the list with other props.
SetProps(c, f) ==
    /\ <<c, f>> # <<compact, fullList>>
    /\ compact' = c
    /\ fullList' = f
    /\ rendered' = TokenList(balances, c, f)
    /\ UNCHANGED formVars

\* The store replaces its snapshot and the list re-renders.
StoreReplaced(b) ==
    /\ b # balances
    /\ balances' = b
    /\ rendered' = TokenList(b, compact, fullList)
    /\ UNCHANGED <<isLoading, balFetch, histFetch, isSubmitting, attempt,
                   subs, nSubs, hookAwaitsHandler, compact, fullList>>

ListNext ==
    \/ \E c \in BOOLEAN, f \in BOOLEAN : SetProps(c, f)
    \/ \E b \in BalanceSeqs : StoreReplaced(b)

ListSpec == ListInit /\ [][ListNext]_vars

----------------------------------------------------------------------------
(* Properties *)

SuccessPath(s) == subs[s].pc \in {"settling", "rejected", "succeeded"}
Has(s, e) == Pos(subs[s].events, e) > 0
Before(s, e1, e2) ==
    Has(s, e1) /\ Has(s, e2) /\ Pos(subs[s].events, e1) < Pos(subs[s].events, e2)

\* C1 (as stated): whenever the success modal has been shown for a
\* submission, both refreshes had been initiated before it was shown.
C1_RefreshBeforeReport ==
    \A s \in Subs :
        Has(s, "showSuccess") =>
            /\ Before(s, "refreshBalance", "showSuccess")
            /\ Before(s, "refreshHistory", "showSuccess")

\* C1 (amended): whenever the success modal has been shown for a submission,
\* both refreshes have been initiated by the same handler step, directly
\* after the modal (modal, refreshBalance, refreshHistory), before any onBack.
C1_RefreshWithReport ==
    \A s \in Subs :
        Has(s, "showSuccess") =>
            LET p == Pos(subs[s].events, "showSuccess")
            IN /\ Pos(subs[s].events, "refreshBalance") = p + 1
               /\ Pos(subs[s].events, "refreshHistory") = p + 2
               /\ subs[s].balP # "none"
               /\ subs[s].histP # "none"
               /\ Has(s, "onBack") => Before(s, "refreshHistory", "onBack")

C1_Witness ==
    \E s \in Subs :
        /\ Has(s, "showSuccess")
        /\ subs[s].balP = "pending"
        /\ subs[s].histP = "pending"
        /\ balFetch = "inflight"
        /\ histFetch = "inflight"

\* C2: a submission whose submitter call has settled has reported exactly
\* one outcome, exactly once: the success modal on the success path (also
\* when a refresh failed or is still pending), the error modal on failure;
\* before the call settles nothing has been reported.
C2_ExactlyOneOutcome ==
    \A s \in Subs :
        LET nOk == Count(subs[s].events, "showSuccess")
            nBad == Count(subs[s].events, "showError")
        IN /\ subs[s].pc \in {"idle", "submitting"} => nOk = 0 /\ nBad = 0
           /\ SuccessPath(s) => nOk = 1 /\ nBad = 0
           /\ subs[s].pc = "failed" => nOk = 0 /\ nBad = 1

C2_Witness ==
    \E s \in Subs :
        /\ subs[s].pc = "rejected"
        /\ Count(subs[s].events, "showSuccess") = 1
        /\ "rejected" \in {subs[s].balP, subs[s].histP}

\* C3 (as stated): a submit whose amount exceeds the current known balance
\* is rejected by validation and does not reach the submitter.
C3_InsufficientBalanceRejected ==
    (attempt.made /\ ~attempt.amount.nan /\ attempt.amount.n > attempt.balance.n)
        => ~attempt.invoked /\ attempt.errors.amount # NoError

RequestInvalid(att) ==
    \/ att.recipient = <<>>
    \/ ~att.amount.nan /\ att.amount.n = 0
    \/ ~att.amount.nan /\ att.amount.n > 100000 * FracDenom

\* C4: a submit with an empty recipient, amount 0 or an amount above the
\* maximum invokes no submitter and starts no refresh, and every submitter
\* invocation belongs to a submit whose values passed validation.
C4_ValidationPrecedes ==
    [][ /\ (attempt' # attempt /\ RequestInvalid(attempt')) =>
              /\ ~attempt'.invoked
              /\ UNCHANGED <<subs, nSubs, balFetch, histFetch, isLoading,
                             isSubmitting>>
        /\ nSubs' # nSubs =>
              /\ attempt'.invoked
              /\ attempt'.errors = NoErrors
              /\ ~RequestInvalid(attempt')
              /\ subs'[nSubs'].events = <<"submit">> ]_vars

C4_Witness ==
    /\ attempt.made
    /\ attempt.amount = Num(0)
    /\ attempt.recipient # <<>>
    /\ ~attempt.invoked
    /\ attempt.errors.amount # NoError
    /\ nSubs = 0

\* C5 (as stated): the amount check rejects a numeric amount exactly when it
\* is <= 0 or above 100,000.
C5_AmountRule ==
    (attempt.made /\ ~attempt.amount.nan) =>
        ( attempt.errors.amount # NoError
            <=> (attempt.amount.n <= 0 \/ attempt.amount.n > 100000 * FracDenom) )

\* C6 (as stated): the success modal is shown whatever the refreshes do, and
\* no step of the success path waits for a refresh to finish.
C6_NoStepWaits ==
    \A s \in Subs :
        /\ SuccessPath(s) => Has(s, "showSuccess")
        /\ subs[s].pc # "settling"

\* C6 (amended): the success modal is shown as soon as the submitter has
\* succeeded, whatever the refreshes do afterwards (pending, failed or
\* completed); what waits for the refreshes is the rest of the handler:
\* while it awaits them onBack has not been called.
C6_ReportNotBlocked ==
    \A s \in Subs :
        /\ SuccessPath(s) => subs[s].events[2] = "showSuccess"
        /\ subs[s].pc = "settling" =>
              /\ "pending" \in {subs[s].balP, subs[s].histP}
              /\ ~Has(s, "onBack")

C6_Witness ==
    \E s \in Subs :
        /\ subs[s].pc = "settling"
        /\ Has(s, "showSuccess")
        /\ subs[s].balP = "pending"
        /\ subs[s].histP = "pending"

\* C7: the submitter is invoked at most once per submit, and a failed
\* submission has shown the error modal and initiated no refresh.
C7_FailureTerminal ==
    \A s \in Subs :
        /\ Count(subs[s].events, "submit") <= 1
        /\ subs[s].pc = "failed" =>
              /\ subs[s].events = <<"submit", "showError">>
              /\ subs[s].balP = "none"
              /\ subs[s].histP = "none"

C7_Witness ==
    \E s \in Subs : subs[s].pc = "failed" /\ Has(s, "showError")

\* C8: the rendered list follows the documented rule: compact and not full
\* list gives the first 3 balances in order and truncated iff more than one
\* balance; otherwise all balances and truncated false.
C8_PresenterRule ==
    LET n == Len(balances)
    IN IF compact /\ ~fullList
       THEN /\ Len(rendered.visible) = (IF n < 3 THEN n ELSE 3)
            /\ \A i \in 1..Len(rendered.visible) :
                  rendered.visible[i] = balances[i]
            /\ rendered.truncated = (n > 1)
       ELSE /\ rendered.visible = balances
            /\ rendered.truncated = FALSE

C8_Witness ==
    /\ compact
    /\ ~fullList
    /\ Len(balances) = 4
    /\ Len(rendered.visible) = 3
    /\ rendered.truncated

\* C9: onBack is called at most once per submission, only on the success
\* path and only when both refreshes have completed successfully; a failed
\* submission or a failed refresh never leads to onBack.
C9_BackAfterRefreshes ==
    \A s \in Subs :
        /\ Count(subs[s].events, "onBack") <= 1
        /\ Has(s, "onBack") =>
              /\ subs[s].balP = "fulfilled"
              /\ subs[s].histP = "fulfilled"
              /\ Before(s, "refreshBalance", "onBack")
              /\ Before(s, "refreshHistory", "onBack")
              /\ subs[s].pc = "succeeded"
        /\ subs[s].pc \in {"failed", "rejected"} => ~Has(s, "onBack")

C9_Witness ==
    \E s \in Subs : Has(s, "onBack") /\ subs[s].pc = "succeeded"

InFlight(ss) == { s \in Subs : ss[s].pc = "submitting" }

\* C10: the submitter is invoked only from a rendered form (store not
\* loading, at least one balance) with no submission pending, so at most one
\* submitter call is in flight, and isSubmitting holds while one is.
C10_OneInFlight ==
    [][ /\ nSubs' # nSubs =>
              /\ ~isSubmitting
              /\ ~isLoading
              /\ Len(balances) >= 1
              /\ InFlight(subs) = {}
        /\ Cardinality(InFlight(subs')) <= 1
        /\ InFlight(subs') # {} => isSubmitting' ]_vars

C10_Witness ==
    /\ nSubs = 2
    /\ subs[1].pc \in {"failed", "succeeded", "rejected", "settling"}
    /\ subs[2].pc = "submitting"
    /\ isSubmitting

====
